---- MODULE Spec2Model ----
(***************************************************************************)
(* Object-document mapper of abiflows (abiflows/core/models.py) and the    *)
(* task-manager configuration exercised by test_fw_utils.py.               *)
(*                                                                         *)
(* Domain objects (abipy Task / Work / Flow) are inputs.  Documents are    *)
(* records.  File storage (GridFS) is a set of blobs.  Every call of the   *)
(* mapper is synchronous, so a call is one action; an exception raised by  *)
(* the call is an outcome of that action.                                  *)
(***************************************************************************)
EXTENDS Integers, Sequences, FiniteSets, TLC

VARIABLES
    gridfs,      \* blobs held by file storage: records [id, node_id, slot]
    nextBlob,    \* identifier the next GridFS put hands out
    doc,         \* the MongoFlow object the caller holds, or None
    collection,  \* documents stored in the "flowdata" collection
    ftm,         \* the FWTaskManager object the caller holds, or None
    result       \* the last call: its name, its argument and what came back

vars == <<gridfs, nextBlob, doc, collection, ftm, result>>

None == [kind |-> "None"]

\* x = value; then Then(x): the value is computed once, as an assignment does
Bind(value, Then(_)) == CHOOSE r \in {Then(x) : x \in {value}} : TRUE

-----------------------------------------------------------------------------
(* Bounds of the model *)

MaxWorks == 2          \* works per flow
MaxTasks == 2          \* tasks per work
MaxCount == 5          \* largest event counter of a report
MaxDocs == 3           \* documents stored by the query scenario
RecursionLimit == 3    \* frames of MongoFlow.delete before RecursionError

-----------------------------------------------------------------------------
(* Text: the strings the code computes with are sequences of characters *)

UpperToLower ==
    [A |-> "a", B |-> "b", C |-> "c", D |-> "d", E |-> "e", F |-> "f",
     G |-> "g", H |-> "h", I |-> "i", J |-> "j", K |-> "k", L |-> "l",
     M |-> "m", N |-> "n", O |-> "o", P |-> "p", Q |-> "q", R |-> "r",
     S |-> "s", T |-> "t", U |-> "u", V |-> "v", W |-> "w", X |-> "x",
     Y |-> "y", Z |-> "z"]

\* str.lower()
Lower(s) ==
    [i \in 1..Len(s) |->
        IF s[i] \in DOMAIN UpperToLower THEN UpperToLower[s[i]] ELSE s[i]]

\* str.replace(old, "") : every non-overlapping occurrence, left to right
RECURSIVE Remove(_, _)
Remove(s, old) ==
    IF Len(s) < Len(old) THEN s
    ELSE IF SubSeq(s, 1, Len(old)) = old
         THEN Remove(SubSeq(s, Len(old) + 1, Len(s)), old)
         ELSE <<Head(s)>> \o Remove(Tail(s), old)

DotNc == <<".", "n", "c">>

\* fname = ext.replace(".nc", "").lower()
SlotName(ext) == Lower(Remove(ext, DotNc))

-----------------------------------------------------------------------------
(* MongoFiles: the declared AbiFileField slots, in declaration order *)

AbiFileFields ==
    << [name |-> <<"g","s","r">>,
        abiext |-> <<"G","S","R",".","n","c">>, abiform |-> "b"],
       [name |-> <<"h","i","s","t">>,
        abiext |-> <<"H","I","S","T">>, abiform |-> "b"],
       [name |-> <<"p","h","b","s","t">>,
        abiext |-> <<"P","H","B","S","T",".","n","c">>, abiform |-> "b"],
       [name |-> <<"p","h","d","o","s">>,
        abiext |-> <<"P","H","D","O","S",".","n","c">>, abiform |-> "b"],
       [name |-> <<"s","i","g","r","e","s">>,
        abiext |-> <<"S","I","G","R","E","S",".","n","c">>, abiform |-> "b"],
       [name |-> <<"m","d","f">>,
        abiext |-> <<"M","D","F",".","n","c">>, abiform |-> "b"],
       [name |-> <<"d","d","b">>,
        abiext |-> <<"D","D","B">>, abiform |-> "t"],
       [name |-> <<"o","u","t","p","u","t","_","f","i","l","e">>,
        abiext |-> <<"a","b","o">>, abiform |-> "t"] >>

NumFields == Len(AbiFileFields)
FieldNames == {AbiFileFields[i].name : i \in 1..NumFields}
KnownExts == {AbiFileFields[i].abiext : i \in 1..NumFields}

GSR == AbiFileFields[1].abiext
DDB == AbiFileFields[7].abiext
ABO == AbiFileFields[8].abiext
OutputFile == AbiFileFields[8].name

\* cls() : every slot is an empty proxy (grid_id None, written 0)
EmptySlots == [n \in FieldNames |-> 0]

\* proxy.put(f): a new blob in file storage, its id kept by the slot
Put(acc, node, slot) ==
    [acc EXCEPT !.slots[slot] = acc.next,
                !.fs = acc.fs \cup {[id |-> acc.next, node_id |-> node.node_id,
                                    slot |-> slot]},
                !.next = acc.next + 1]

\* the loop of MongoFiles.from_node over cls._fields, from field i on.
\* node.outdir.has_abiext(ext) is true when the extension is in node.outdir;
\* getattr(new, fname) raises AttributeError when fname names no slot.
RECURSIVE PutOutdirFiles(_, _, _)
PutOutdirFiles(node, i, acc) ==
    IF i > NumFields \/ acc.err # "" THEN acc
    ELSE LET ext == AbiFileFields[i].abiext
             fname == SlotName(ext)
         IN IF ext \in node.outdir
            THEN IF fname \in FieldNames
                 THEN Bind(Put(acc, node, fname),
                           LAMBDA put : PutOutdirFiles(node, i + 1, put))
                 ELSE [acc EXCEPT !.err = "AttributeError"]
            ELSE PutOutdirFiles(node, i + 1, acc)

\* MongoFiles.from_node(node), started with file storage fs and counter next.
\* Returns [slots, fs, next, err]; err = "" when the record is returned.
MongoFiles_from_node(node, fs, next) ==
    Bind(PutOutdirFiles(node, 1,
             [slots |-> EmptySlots, fs |-> fs, next |-> next, err |-> ""]),
         LAMBDA scanned :
             IF scanned.err = "" /\ node.has_output_file
             THEN Put(scanned, node, OutputFile)
             ELSE scanned)

-----------------------------------------------------------------------------
(* Node records *)

\* str(node.status): abipy's Status is an integer that prints as its name
StatusStr(status) ==
    CASE status = 16 -> "Running"
      [] status = 32 -> "Done"
      [] status = 512 -> "Error"
      [] status = 1024 -> "Completed"

\* a from_node that names the document's class instead of the node's
MongoNode_from_node_own_class(node) ==
    [node_class |-> "MongoNode",
     node_id |-> node.node_id,
     status |-> StatusStr(node.status),
     workdir |-> node.workdir]

\* MongoNode.from_node(node)
MongoNode_from_node(node) ==
    [node_class |-> node.cls,
     node_id |-> node.node_id,
     status |-> StatusStr(node.status),
     workdir |-> node.workdir]

\* MongoEmbeddedNode.from_node(node)
MongoEmbeddedNode_from_node(node) ==
    [node_class |-> node.cls,
     node_id |-> node.node_id,
     status |-> StatusStr(node.status),
     workdir |-> node.workdir]

-----------------------------------------------------------------------------
(* Task records *)

\* structure.as_dict(): the tagged dictionary of a structure
StructureAsDict(structure) ==
    [module |-> "pymatgen.core.structure", class |-> "Structure",
     data |-> structure]

\* task.input.as_dict() and str(task.input)
InputAsDict(input) ==
    [class |-> "AbinitInput", structure |-> StructureAsDict(input.structure)]
InputStr(input) == <<"AbinitInput", input.structure>>

\* report.as_dict()
ReportAsDict(report) == [class |-> "EventReport", filename |-> report.filename]

\* a from_task that leaves final_structure unset without a GSR file
MongoTaskResults_from_task_unset(task) ==
    [initial_structure |-> StructureAsDict(task.input.structure),
     final_structure |-> IF task.has_open_gsr
                         THEN StructureAsDict(task.gsr_structure)
                         ELSE None]

\* MongoTaskResults.from_task(task)
MongoTaskResults_from_task(task) ==
    LET initial_structure == StructureAsDict(task.input.structure)
        final_structure ==
            IF task.has_open_gsr
            THEN StructureAsDict(task.gsr_structure)
            ELSE initial_structure
    IN [initial_structure |-> initial_structure,
        final_structure |-> final_structure]

\* a copy that crosses two of the counters
EventCountersCrossed(report) ==
    [num_errors |-> report.num_comments,
     num_comments |-> report.num_errors,
     num_warnings |-> report.num_warnings]

\* for a in ("num_errors", "num_comments", "num_warnings"):
\*     setattr(new, a, getattr(report, a))
EventCounters(report) ==
    [num_errors |-> report.num_errors,
     num_comments |-> report.num_comments,
     num_warnings |-> report.num_warnings]

\* MongoTask.from_task(task), started with file storage fs and counter next.
\* Returns [doc, fs, next, err]; the report of a task may be None, and then
\* getattr(report, a) raises AttributeError before any blob is written.
MongoTask_from_task(task, fs, next) ==
    IF task.report = None
    THEN [doc |-> None, fs |-> fs, next |-> next, err |-> "AttributeError"]
    ELSE Bind(MongoFiles_from_node(task, fs, next), LAMBDA files :
         LET new == MongoEmbeddedNode_from_node(task)
             report == task.report
             counters == EventCounters(report)
         IN [doc |-> IF files.err # "" THEN None
                     ELSE [node_class |-> new.node_class,
                           node_id |-> new.node_id,
                           status |-> new.status,
                           workdir |-> new.workdir,
                           input |-> InputAsDict(task.input),
                           input_str |-> InputStr(task.input),
                           num_errors |-> counters.num_errors,
                           num_comments |-> counters.num_comments,
                           num_warnings |-> counters.num_warnings,
                           report |-> ReportAsDict(report),
                           results |-> MongoTaskResults_from_task(task),
                           outfiles |-> files.slots],
             fs |-> files.fs, next |-> files.next, err |-> files.err])

-----------------------------------------------------------------------------
(* Work and flow records *)

\* [Mongo...from_...(x) for x in xs], from element i on: conversions run in
\* the order of the source collection and the first exception ends the list
RECURSIVE TasksFrom(_, _, _)
TasksFrom(tasks, i, acc) ==
    IF i > Len(tasks) \/ acc.err # "" THEN acc
    ELSE Bind(MongoTask_from_task(tasks[i], acc.fs, acc.next), LAMBDA t :
         Bind([docs |-> IF t.err = "" THEN Append(acc.docs, t.doc)
                        ELSE acc.docs,
               fs |-> t.fs, next |-> t.next, err |-> t.err],
              LAMBDA done : TasksFrom(tasks, i + 1, done)))

\* MongoWork.from_work(work)
MongoWork_from_work(work, fs, next) ==
    Bind(TasksFrom(work.tasks, 1,
             [docs |-> <<>>, fs |-> fs, next |-> next, err |-> ""]),
         LAMBDA tasks :
    Bind(IF tasks.err = ""
         THEN MongoFiles_from_node(work, tasks.fs, tasks.next)
         ELSE [slots |-> EmptySlots, fs |-> tasks.fs,
               next |-> tasks.next, err |-> tasks.err],
         LAMBDA files :
    LET new == MongoEmbeddedNode_from_node(work)
    IN [doc |-> IF files.err # "" THEN None
                ELSE [node_class |-> new.node_class,
                      node_id |-> new.node_id,
                      status |-> new.status,
                      workdir |-> new.workdir,
                      tasks |-> tasks.docs,
                      outfiles |-> files.slots],
        fs |-> files.fs, next |-> files.next, err |-> files.err]))

RECURSIVE WorksFrom(_, _, _)
WorksFrom(works, i, acc) ==
    IF i > Len(works) \/ acc.err # "" THEN acc
    ELSE Bind(MongoWork_from_work(works[i], acc.fs, acc.next), LAMBDA w :
         Bind([docs |-> IF w.err = "" THEN Append(acc.docs, w.doc)
                        ELSE acc.docs,
               fs |-> w.fs, next |-> w.next, err |-> w.err],
              LAMBDA done : WorksFrom(works, i + 1, done)))

\* MongoFlow.from_flow(flow); a new document has no primary key (id 0)
MongoFlow_from_flow(flow, fs, next) ==
    Bind(WorksFrom(flow.works, 1,
             [docs |-> <<>>, fs |-> fs, next |-> next, err |-> ""]),
         LAMBDA works :
    Bind(IF works.err = ""
         THEN MongoFiles_from_node(flow, works.fs, works.next)
         ELSE [slots |-> EmptySlots, fs |-> works.fs,
               next |-> works.next, err |-> works.err],
         LAMBDA files :
    LET new == MongoNode_from_node(flow)
    IN [doc |-> IF files.err # "" THEN None
                ELSE [kind |-> "MongoFlow",
                      id |-> 0,
                      node_class |-> new.node_class,
                      node_id |-> new.node_id,
                      status |-> new.status,
                      workdir |-> new.workdir,
                      works |-> works.docs,
                      outfiles |-> files.slots],
        fs |-> files.fs, next |-> files.next, err |-> files.err]))

-----------------------------------------------------------------------------
(* Deletion *)

\* the grid_id held by the slot at a position [work, task, slot] of a flow
\* document; task = 0 names the file set of the work itself
GridId(d, pos) ==
    IF pos.task = 0
    THEN d.works[pos.work].outfiles[pos.slot]
    ELSE d.works[pos.work].tasks[pos.task].outfiles[pos.slot]

ClearSlot(d, pos) ==
    IF pos.task = 0
    THEN [d EXCEPT !.works[pos.work].outfiles[pos.slot] = 0]
    ELSE [d EXCEPT !.works[pos.work].tasks[pos.task].outfiles[pos.slot] = 0]

\* value.delete() on one slot: the n-th deletion of the call.  File storage
\* may fail it (failAt names the deletion that fails, 0 for none), and then
\* the exception leaves the loops: nothing catches it.  A deletion that
\* succeeds removes the blob and empties the proxy.
ProxyDelete(st, failAt, pos) ==
    IF st.n + 1 = failAt
    THEN [st EXCEPT !.n = st.n + 1,
                    !.attempted = st.attempted \cup {pos},
                    !.err = "OperationFailure"]
    ELSE [st EXCEPT !.n = st.n + 1,
                    !.attempted = st.attempted \cup {pos},
                    !.fs = {b \in st.fs : b.id # GridId(st.doc, pos)},
                    !.doc = ClearSlot(st.doc, pos)]

\* MongoFiles.delete() of the file set of work w (task t, 0 for the work's
\* own), from field i on.  Every slot holds a proxy, which has a delete.
RECURSIVE MongoFiles_delete(_, _, _, _, _)
MongoFiles_delete(st, failAt, w, t, i) ==
    IF i > NumFields \/ st.err # "" THEN st
    ELSE Bind(ProxyDelete(st, failAt,
                  [work |-> w, task |-> t, slot |-> AbiFileFields[i].name]),
              LAMBDA deleted : MongoFiles_delete(deleted, failAt, w, t, i + 1))

\* for task in work: task.outfiles.delete(), from task t on.  Iterating a
\* MongoWork is taken to yield its tasks, as its __getitem__ does for
\* integers by falling back on work.tasks.
RECURSIVE DeleteTasks(_, _, _, _)
DeleteTasks(st, failAt, w, t) ==
    IF t > Len(st.doc.works[w].tasks) \/ st.err # "" THEN st
    ELSE Bind(MongoFiles_delete(st, failAt, w, t, 1),
              LAMBDA deleted : DeleteTasks(deleted, failAt, w, t + 1))

\* for work in self.works: work.outfiles.delete(); then its tasks
RECURSIVE DeleteWorks(_, _, _)
DeleteWorks(st, failAt, w) ==
    IF w > Len(st.doc.works) \/ st.err # "" THEN st
    ELSE Bind(MongoFiles_delete(st, failAt, w, 0, 1), LAMBDA own :
         Bind(DeleteTasks(own, failAt, w, 1),
              LAMBDA deleted : DeleteWorks(deleted, failAt, w + 1)))

\* MongoFlow.delete(), entered at the given call depth.  The call that ends
\* the method is self.delete(): the method itself, not Document.delete, so
\* the document is never removed from the collection; the interpreter ends
\* the recursion with an error once the frames exceed its limit.
RECURSIVE MongoFlow_delete(_, _, _)
MongoFlow_delete(st, failAt, depth) ==
    IF depth > RecursionLimit
    THEN [st EXCEPT !.err = "RecursionError"]
    ELSE Bind(DeleteWorks(st, failAt, 1), LAMBDA after :
         IF after.err # "" THEN after
         ELSE MongoFlow_delete(after, failAt, depth + 1))

\* number of slot deletions of one pass over the document
SlotsOf(d) ==
    LET RECURSIVE Sum(_)
        Sum(w) == IF w > Len(d.works) THEN 0
                  ELSE NumFields * (1 + Len(d.works[w].tasks)) + Sum(w + 1)
    IN Sum(1)

-----------------------------------------------------------------------------
(* Queries *)

\* a view that also takes the flows whose run is done
MongoFlow_completed_or_done(queryset) ==
    {d \in queryset : d.status \in {"Completed", "Done"}}

\* MongoFlow.completed: queryset.filter(status="Completed")
MongoFlow_completed(queryset) == {d \in queryset : d.status = "Completed"}

-----------------------------------------------------------------------------
(* Domain objects given to the mapper *)

SeqsUpTo(S, n) == UNION {[1..k -> S] : k \in 0..n}

Task(node_id, status, outdir) ==
    [cls |-> "ScfTask", node_id |-> node_id, status |-> status,
     workdir |-> "/flow/w/t", outdir |-> outdir, has_output_file |-> TRUE,
     input |-> [structure |-> "Si2"],
     report |-> [filename |-> "run.log", num_warnings |-> 0,
                 num_errors |-> 0, num_comments |-> 0],
     has_open_gsr |-> TRUE, gsr_structure |-> "Si2-relaxed"]

Work(node_id, status, shape) ==
    [cls |-> "Work", node_id |-> node_id, status |-> status,
     workdir |-> "/flow/w", outdir |-> shape.outdir,
     has_output_file |-> FALSE,
     tasks |-> [t \in 1..Len(shape.tasks) |->
                   Task(node_id + t, status, shape.tasks[t])]]

Flow(status, outdir, shapes) ==
    [cls |-> "Flow", node_id |-> 1, status |-> status,
     workdir |-> "/flow", outdir |-> outdir, has_output_file |-> FALSE,
     works |-> [w \in 1..Len(shapes) |-> Work(10 * w, status, shapes[w])]]

\* flows of up to MaxWorks works of up to MaxTasks tasks; the output
\* directories of a level hold the same files
WorkShapes(workOut, taskOut) ==
    [outdir : {workOut}, tasks : SeqsUpTo({taskOut}, MaxTasks)]

Flows ==
    {Flow(1024, flowOut, shapes) :
        flowOut \in {{}, {DDB}},
        shapes \in UNION {SeqsUpTo(WorkShapes(workOut, taskOut), MaxWorks) :
                              workOut \in {{}, {DDB}},
                              taskOut \in {{}, {GSR}}}}

-----------------------------------------------------------------------------
(* Calls of the mapper *)

NoCall == [op |-> "none"]

Failure(err) == [kind |-> err]

\* new = MongoFlow.from_flow(flow)
FromFlow(flow) ==
    \E r \in {MongoFlow_from_flow(flow, gridfs, nextBlob)} :
       /\ gridfs' = r.fs
       /\ nextBlob' = r.next
       /\ doc' = IF r.err = "" THEN r.doc ELSE doc
       /\ result' = [op |-> "MongoFlow.from_flow", arg |-> flow,
                     out |-> IF r.err = "" THEN r.doc ELSE Failure(r.err)]
       /\ UNCHANGED <<collection, ftm>>

\* the required lists of a flow document hold something
Validates(d) ==
    /\ d.works # <<>>
    /\ \A w \in 1..Len(d.works) : d.works[w].tasks # <<>>

\* doc.save(): the first save of a valid document inserts it into the
\* collection under a new primary key
Save ==
    /\ doc # None
    /\ doc.id = 0
    /\ Validates(doc)
    /\ doc' = [doc EXCEPT !.id = Cardinality(collection) + 1]
    /\ collection' = collection \cup {doc'}
    /\ result' = [op |-> "save", arg |-> doc, out |-> doc']
    /\ UNCHANGED <<gridfs, nextBlob, ftm>>

\* doc.delete(), with the slot deletion that file storage fails (0: none)
Delete(failAt) ==
    /\ doc # None
    /\ \E r \in {MongoFlow_delete(
                    [doc |-> doc, fs |-> gridfs, n |-> 0, attempted |-> {},
                     err |-> ""], failAt, 1)} :
          /\ gridfs' = r.fs
          /\ doc' = r.doc
          /\ result' = [op |-> "MongoFlow.delete", arg |-> doc,
                        attempted |-> r.attempted,
                        out |-> IF r.err = "" THEN None ELSE Failure(r.err)]
    /\ UNCHANGED <<nextBlob, collection, ftm>>

Init ==
    /\ gridfs = {}
    /\ nextBlob = 1
    /\ doc = None
    /\ collection = {}
    /\ ftm = None
    /\ result = NoCall

\* one flow is converted, then stored or not, then deleted once; the
\* deletion that fails is any of the first pass or the first one after it
Next ==
    \/ \E flow \in Flows : doc = None /\ FromFlow(flow)
    \/ result.op = "MongoFlow.from_flow" /\ Save
    \/ /\ result.op \in {"MongoFlow.from_flow", "save"}
       /\ \E failAt \in 0..(IF doc = None THEN 0 ELSE SlotsOf(doc) + 1) :
              Delete(failAt)

Spec == Init /\ [][Next]_vars

-----------------------------------------------------------------------------
(* The conversions, each applied once to a domain object *)

StatusCodes == {16, 32, 512, 1024}
Structures == {"Si2", "Si2-relaxed"}

\* nodes with any set of the known files in their output directory, with
\* and without an output_file of their own
FileNodes ==
    {[cls |-> "Work", node_id |-> 1, status |-> 16, workdir |-> "/flow/w",
      outdir |-> outdir, has_output_file |-> has_output_file] :
        outdir \in SUBSET KnownExts, has_output_file \in BOOLEAN}

PlainNodes ==
    {[cls |-> cls, node_id |-> node_id, status |-> status,
      workdir |-> workdir, outdir |-> {}, has_output_file |-> FALSE] :
        cls \in {"Flow", "Work", "ScfTask"}, node_id \in 1..2,
        status \in StatusCodes, workdir \in {"/flow", "/flow/w"}}

Reports ==
    [filename : {"run.log"}, num_warnings : 0..MaxCount,
     num_errors : 0..MaxCount, num_comments : 0..MaxCount]

\* tasks: get_event_report() gives a report or None, open_gsr exists or not
Tasks ==
    {[cls |-> "ScfTask", node_id |-> 11, status |-> 1024,
      workdir |-> "/flow/w/t", outdir |-> outdir, has_output_file |-> TRUE,
      input |-> [structure |-> structure], report |-> report,
      has_open_gsr |-> has_open_gsr, gsr_structure |-> gsr_structure] :
        outdir \in {{}, {GSR}, {ABO}}, structure \in Structures,
        report \in Reports \cup {None}, has_open_gsr \in BOOLEAN,
        gsr_structure \in Structures}

\* MongoFiles.from_node(node)
FilesFromNode(node) ==
    \E r \in {MongoFiles_from_node(node, gridfs, nextBlob)} :
       /\ gridfs' = r.fs
       /\ nextBlob' = r.next
       /\ result' = [op |-> "MongoFiles.from_node", arg |-> node,
                     out |-> IF r.err = ""
                             THEN [kind |-> "MongoFiles", slots |-> r.slots]
                             ELSE Failure(r.err)]
       /\ UNCHANGED <<doc, collection, ftm>>

\* MongoNode.from_node(node)
NodeFromNode(node) ==
    /\ result' = [op |-> "MongoNode.from_node", arg |-> node,
                  out |-> MongoNode_from_node(node)]
    /\ UNCHANGED <<gridfs, nextBlob, doc, collection, ftm>>

\* MongoEmbeddedNode.from_node(node)
EmbeddedNodeFromNode(node) ==
    /\ result' = [op |-> "MongoEmbeddedNode.from_node", arg |-> node,
                  out |-> MongoEmbeddedNode_from_node(node)]
    /\ UNCHANGED <<gridfs, nextBlob, doc, collection, ftm>>

\* MongoTaskResults.from_task(task)
ResultsFromTask(task) ==
    /\ result' = [op |-> "MongoTaskResults.from_task", arg |-> task,
                  out |-> MongoTaskResults_from_task(task)]
    /\ UNCHANGED <<gridfs, nextBlob, doc, collection, ftm>>

\* MongoTask.from_task(task)
TaskFromTask(task) ==
    \E r \in {MongoTask_from_task(task, gridfs, nextBlob)} :
       /\ gridfs' = r.fs
       /\ nextBlob' = r.next
       /\ result' = [op |-> "MongoTask.from_task", arg |-> task,
                     out |-> IF r.err = ""
                             THEN [kind |-> "MongoTask", doc |-> r.doc]
                             ELSE Failure(r.err)]
       /\ UNCHANGED <<doc, collection, ftm>>

\* one call, on file storage that holds nothing yet
NextConv ==
    \/ \E node \in FileNodes : result = NoCall /\ FilesFromNode(node)
    \/ \E node \in PlainNodes : result = NoCall /\ NodeFromNode(node)
    \/ \E node \in PlainNodes : result = NoCall /\ EmbeddedNodeFromNode(node)
    \/ \E task \in Tasks : result = NoCall /\ ResultsFromTask(task)
    \/ \E task \in Tasks : result = NoCall /\ TaskFromTask(task)

SpecConv == Init /\ [][NextConv]_vars

-----------------------------------------------------------------------------
(* Stored flow documents and the completed view *)

\* flows of one work of one task, in every status
StoredFlows ==
    {Flow(status, {}, <<[outdir |-> {}, tasks |-> <<{}>>]>>) :
        status \in StatusCodes}

\* MongoFlow.completed
QueryCompleted ==
    /\ result' = [op |-> "MongoFlow.completed", arg |-> collection,
                  out |-> MongoFlow_completed(collection)]
    /\ UNCHANGED <<gridfs, nextBlob, doc, collection, ftm>>

\* up to MaxDocs flows are converted and stored, and the view is queried
NextQuery ==
    \/ /\ Cardinality(collection) < MaxDocs
       /\ IF doc = None THEN TRUE ELSE doc.id # 0
       /\ \E flow \in StoredFlows : FromFlow(flow)
    \/ Save
    \/ QueryCompleted

SpecQuery == Init /\ [][NextQuery]_vars

-----------------------------------------------------------------------------
(* FWTaskManager: the task-manager configuration and its policy *)

RecognizedKeys == {"qadapters", "fw_policy"}
PolicyOptions == {"max_restarts", "rerun_same_dir", "autoparal"}

PolicyDefaults ==
    [max_restarts |-> 10, rerun_same_dir |-> FALSE, autoparal |-> FALSE]

\* the options of d replace those of policy, the others stay
MergePolicy(policy, d) ==
    [o \in PolicyOptions |-> IF o \in DOMAIN d THEN d[o] ELSE policy[o]]

\* a loader that passes over the keys it does not recognize
FWTaskManager_from_file_lenient(config) ==
    [kind |-> "FWTaskManager",
     fw_policy |->
         MergePolicy(PolicyDefaults,
             IF "fw_policy" \in DOMAIN config
             THEN config["fw_policy"] ELSE <<>>),
     task_manager |->
         IF "qadapters" \in DOMAIN config
         THEN [kind |-> "TaskManager", qadapters |-> config["qadapters"]]
         ELSE None]

\* FWTaskManager.from_file(path) on a file that holds config, and
\* FWTaskManager.from_user_config() on the file of the working directory
FWTaskManager_from_file(config) ==
    LET unknown == DOMAIN config \ RecognizedKeys
    IN IF unknown # {}
       THEN [kind |-> "RuntimeError", keys |-> unknown]
       ELSE [kind |-> "FWTaskManager",
             fw_policy |->
                 MergePolicy(PolicyDefaults,
                     IF "fw_policy" \in DOMAIN config
                     THEN config["fw_policy"] ELSE <<>>),
             task_manager |->
                 IF "qadapters" \in DOMAIN config
                 THEN [kind |-> "TaskManager",
                       qadapters |-> config["qadapters"]]
                 ELSE None]

\* an update that starts again from the default policy
FWTaskManager_update_fw_policy_reset(manager, d) ==
    [manager EXCEPT !.fw_policy = MergePolicy(PolicyDefaults, d)]

\* ftm.update_fw_policy(d)
FWTaskManager_update_fw_policy(manager, d) ==
    [manager EXCEPT !.fw_policy = MergePolicy(manager.fw_policy, d)]

\* the mappings that give key one of the values, or leave it out
Entry(key, values) == {<<>>} \cup {key :> v : v \in values}

\* partial policy mappings
PartialPolicies ==
    {a @@ b @@ c : a \in Entry("max_restarts", {10, 30}),
                   b \in Entry("rerun_same_dir", BOOLEAN),
                   c \in Entry("autoparal", BOOLEAN)}

\* configuration files: any of the recognized top-level keys and of two
\* unrecognized ones
Configs ==
    {q @@ p @@ u @@ v : q \in Entry("qadapters", {"slurm"}),
                        p \in Entry("fw_policy", PartialPolicies),
                        u \in Entry("fw_polcy", {"junk"}),
                        v \in Entry("qadapter", {"junk"})}

\* ftm = FWTaskManager.from_file(path): an error leaves ftm as it was
FromFile(config) ==
    \E r \in {FWTaskManager_from_file(config)} :
       /\ ftm' = IF r.kind = "FWTaskManager" THEN r ELSE ftm
       /\ result' = [op |-> "FWTaskManager.from_file", arg |-> config,
                     before |-> ftm, out |-> r]
       /\ UNCHANGED <<gridfs, nextBlob, doc, collection>>

\* ftm = FWTaskManager.from_user_config()
FromUserConfig(config) ==
    \E r \in {FWTaskManager_from_file(config)} :
       /\ ftm' = IF r.kind = "FWTaskManager" THEN r ELSE ftm
       /\ result' = [op |-> "FWTaskManager.from_user_config", arg |-> config,
                     before |-> ftm, out |-> r]
       /\ UNCHANGED <<gridfs, nextBlob, doc, collection>>

\* ftm.update_fw_policy(d)
UpdateFwPolicy(d) ==
    /\ ftm # None
    /\ ftm' = FWTaskManager_update_fw_policy(ftm, d)
    /\ result' = [op |-> "FWTaskManager.update_fw_policy", arg |-> d,
                  before |-> ftm, out |-> None]
    /\ UNCHANGED <<gridfs, nextBlob, doc, collection>>

NextCfg ==
    \/ \E config \in Configs : FromFile(config)
    \/ \E config \in Configs : FromUserConfig(config)
    \/ \E d \in PartialPolicies : UpdateFwPolicy(d)

SpecCfg == Init /\ [][NextCfg]_vars

-----------------------------------------------------------------------------
(* Properties *)

\* the positions of a flow document's work and task file sets whose slot
\* holds a blob
PopulatedPositions(d) ==
    {pos \in UNION {[work : {w}, task : 0..Len(d.works[w].tasks),
                     slot : FieldNames] : w \in 1..Len(d.works)} :
        GridId(d, pos) # 0}

\* the blobs a flow document refers to, at flow, work and task level
BlobIds(d) ==
    ({d.outfiles[n] : n \in FieldNames}
     \cup UNION {{d.works[w].outfiles[n] : n \in FieldNames} :
                 w \in 1..Len(d.works)}
     \cup UNION {UNION {{d.works[w].tasks[t].outfiles[n] : n \in FieldNames} :
                        t \in 1..Len(d.works[w].tasks)} :
                 w \in 1..Len(d.works)}) \ {0}

\* C1: when MongoFlow.delete has ended, the deletion of every populated slot
\* of every work and task file set has been attempted, whether or not a
\* deletion failed on the way.
C1_EverySlotAttempted ==
    result.op = "MongoFlow.delete" =>
        PopulatedPositions(result.arg) \subseteq result.attempted

\* C2: MongoFiles.from_node returns a record, never an error, and a slot of
\* the record is populated exactly when the file with the slot's extension
\* is in the node's output directory.
C2_SlotsMatchOutdir ==
    result.op = "MongoFiles.from_node" =>
        /\ result.out.kind = "MongoFiles"
        /\ \A i \in 1..NumFields :
               (result.out.slots[AbiFileFields[i].name] # 0)
                   <=> (AbiFileFields[i].abiext \in result.arg.outdir)

\* C3: after a MongoFlow.delete in which no blob deletion failed, file
\* storage holds none of the blobs that from_flow wrote for the document,
\* at flow, work or task level.
C3_NoBlobRemains ==
    (result.op = "MongoFlow.delete" /\ result.out # Failure("OperationFailure"))
        => \A b \in gridfs : b.id \notin BlobIds(result.arg)

\* C4: every task record that MongoTask.from_task returns carries the three
\* counters of the task's event report, each under its own name, and the
\* dictionary of that same report.
C4_CountersCopied ==
    (result.op = "MongoTask.from_task" /\ result.out.kind = "MongoTask") =>
        /\ result.arg.report # None
        /\ result.out.doc.num_warnings = result.arg.report.num_warnings
        /\ result.out.doc.num_errors = result.arg.report.num_errors
        /\ result.out.doc.num_comments = result.arg.report.num_comments
        /\ result.out.doc.report.filename = result.arg.report.filename

\* a report of 2 warnings, 0 errors and 5 comments was converted
C4_Witness ==
    /\ result.op = "MongoTask.from_task"
    /\ result.out.kind = "MongoTask"
    /\ result.arg.report.num_warnings = 2
    /\ result.arg.report.num_errors = 0
    /\ result.arg.report.num_comments = 5
    /\ result.out.doc.num_warnings = 2
    /\ result.out.doc.num_errors = 0
    /\ result.out.doc.num_comments = 5

\* C5: the completed view of a collection holds a stored flow document
\* exactly when the document's status is the string "Completed".
C5_CompletedExactly ==
    result.op = "MongoFlow.completed" =>
        /\ result.out \subseteq result.arg
        /\ \A d \in result.arg :
               d \in result.out <=> d.status = "Completed"

\* the view was taken over completed, failed and running flows
C5_Witness ==
    /\ result.op = "MongoFlow.completed"
    /\ result.out # {}
    /\ \E d \in result.arg : d.status = "Error" /\ d \notin result.out
    /\ \E d \in result.arg : d.status = "Running" /\ d \notin result.out

\* C6: loading a configuration with a top-level key that is not recognized
\* ends in a RuntimeError that names exactly the unrecognized keys, and the
\* caller gets no manager; a configuration of recognized keys loads.
C6_UnknownKeysRejected ==
    result.op = "FWTaskManager.from_file" =>
        LET unknown == {k \in DOMAIN result.arg :
                           k # "qadapters" /\ k # "fw_policy"}
        IN IF unknown # {}
           THEN /\ result.out.kind = "RuntimeError"
                /\ result.out.keys = unknown
                /\ ftm = result.before
           ELSE /\ result.out.kind = "FWTaskManager"
                /\ ftm = result.out

\* a file with the misspelt key fw_polcy was refused
C6_Witness ==
    /\ result.op = "FWTaskManager.from_file"
    /\ "fw_polcy" \in DOMAIN result.arg
    /\ "fw_policy" \in DOMAIN result.arg
    /\ result.out.kind = "RuntimeError"
    /\ "fw_polcy" \in result.out.keys

\* C7: after update_fw_policy(d), every option that d names has the value
\* d gives it and every other option has the value it had before; the rest
\* of the manager is as it was.
C7_PolicyMerged ==
    result.op = "FWTaskManager.update_fw_policy" =>
        /\ \A o \in {"max_restarts", "rerun_same_dir", "autoparal"} :
               ftm.fw_policy[o] = IF o \in DOMAIN result.arg
                                  THEN result.arg[o]
                                  ELSE result.before.fw_policy[o]
        /\ ftm.task_manager = result.before.task_manager

\* max_restarts was set to 30 on a policy that reruns in the same directory
\* and runs autoparal, and had another max_restarts
C7_Witness ==
    /\ result.op = "FWTaskManager.update_fw_policy"
    /\ result.arg = ("max_restarts" :> 30)
    /\ result.before.fw_policy.max_restarts = 10
    /\ result.before.fw_policy.rerun_same_dir
    /\ result.before.fw_policy.autoparal
    /\ ftm.fw_policy.max_restarts = 30
    /\ ftm.fw_policy.rerun_same_dir
    /\ ftm.fw_policy.autoparal

\* C8: the record that from_node returns, of MongoNode or MongoEmbeddedNode,
\* holds the node's identifier, the name of its class, the string of its
\* status and its working directory.
C8_NodeFieldsCopied ==
    result.op \in {"MongoNode.from_node", "MongoEmbeddedNode.from_node"} =>
        /\ result.out.node_id = result.arg.node_id
        /\ result.out.node_class = result.arg.cls
        /\ result.out.workdir = result.arg.workdir
        /\ result.out.status =
               (CASE result.arg.status = 16 -> "Running"
                  [] result.arg.status = 32 -> "Done"
                  [] result.arg.status = 512 -> "Error"
                  [] result.arg.status = 1024 -> "Completed")

\* a completed flow was converted to a MongoNode record
C8_Witness ==
    /\ result.op = "MongoNode.from_node"
    /\ result.arg.cls = "Flow"
    /\ result.arg.status = 1024
    /\ result.out = [node_class |-> "Flow", node_id |-> 2,
                     status |-> "Completed", workdir |-> "/flow"]

\* C9: in the record that MongoTaskResults.from_task returns,
\* initial_structure is the task's input structure; final_structure is the
\* structure of the GSR file when the task has open_gsr, and is
\* initial_structure when it has not; it is never left unset.
C9_FinalStructure ==
    result.op = "MongoTaskResults.from_task" =>
        /\ result.out.initial_structure.data = result.arg.input.structure
        /\ result.out.final_structure # None
        /\ result.arg.has_open_gsr =>
               result.out.final_structure.data = result.arg.gsr_structure
        /\ ~result.arg.has_open_gsr =>
               result.out.final_structure = result.out.initial_structure

\* a task without open_gsr, whose GSR structure would differ, was converted
C9_Witness ==
    /\ result.op = "MongoTaskResults.from_task"
    /\ ~result.arg.has_open_gsr
    /\ result.arg.gsr_structure # result.arg.input.structure
    /\ result.out.final_structure = result.out.initial_structure

\* C10: a MongoFlow.delete in which no blob deletion failed returns to its
\* caller, and the flow document is then no longer in the collection.
C10_DeleteReturns ==
    (/\ result.op = "MongoFlow.delete"
     /\ result.arg.id # 0
     /\ result.out # Failure("OperationFailure"))
        => /\ result.out = None
           /\ \A d \in collection : d.id # result.arg.id

====
